---- MODULE Spec2Model ----
(***************************************************************************)
(* Bryant Evolution climate entity                                          *)
(* (homeassistant/components/bryant_evolution/climate.py).                  *)
(*                                                                          *)
(* attr   the entity's cached attributes (the _attr_* fields)               *)
(* dev    what the BryantEvolutionClient reads from / writes to the device  *)
(* last   the record of the last handler call: its arguments, whether it    *)
(*        raised HomeAssistantError, the client writes it issued (in        *)
(*        order) and the number of state-write signals it emitted           *)
(* added  the entity has been added to the platform, which happens after    *)
(*        the first update that does not raise (update_before_add=True)     *)
(*                                                                          *)
(* run    the refresh in flight: the await at which async_update is        *)
(*        suspended ("idle" when none is running), the attributes that      *)
(*        accepted mutator calls wrote while it was suspended, and whether  *)
(*        the device stayed as the entity's own writes left it              *)
(*                                                                          *)
(* Optional values: Python None is the empty tuple <<>> and a present       *)
(* number or (mode, is_active) pair is a non-empty tuple; an absent string  *)
(* is the string "None".  Device and attribute temperatures are whole       *)
(* degrees.  Numbers passed by the caller of async_set_temperature may be   *)
(* fractional: they are represented in half degrees (3 stands for 1.5).     *)
(***************************************************************************)
EXTENDS Integers, Sequences, FiniteSets, TLC

VARIABLES attr, dev, last, added, run

vars == <<attr, dev, last, added, run>>

\* Largest temperature, in degrees, that the device reports or is asked for.
MaxTemp == 2

None == <<>>
NoStr == "None"

Some(v) == <<v>>

Degrees == 1..MaxTemp
OptDegrees == {None} \cup {Some(t) : t \in Degrees}

\* HVACMode / HVACAction enum values (string enums).
HEAT == "heat"
COOL == "cool"
HEAT_COOL == "heat_cool"
OFF == "off"
AUTO == "auto"
HEATING == "heating"
COOLING == "cooling"

\* _attr_hvac_modes: the modes the UI may ask for.
HvacModes == {HEAT, COOL, HEAT_COOL, OFF}

\* Mode strings the device may report, with their letter case.
DevModeStrings == {"HEAT", "cool", "Auto", "off", "FROST"}

\* str.upper() on the mode strings.
upper(s) ==
    CASE s \in {"heat", "Heat", "HEAT"} -> "HEAT"
      [] s \in {"cool", "Cool", "COOL"} -> "COOL"
      [] s \in {"auto", "Auto", "AUTO"} -> "AUTO"
      [] s \in {"off", "Off", "OFF"} -> "OFF"
      [] s = "heat_cool" -> "HEAT_COOL"
      [] s \in {"frost", "FROST"} -> "FROST"

\* str.lower() on the fan strings.
lower(s) ==
    CASE s \in {"auto"} -> "auto"
      [] s \in {"LOW", "low"} -> "low"

\* int(x) for a non-negative number x given in half degrees: truncation.
PyInt(h) == h \div 2

\* Truthiness of kwargs.get(key): None and 0 are falsy.
Truthy(x) == x # None /\ x[1] # 0

\* The number a caller passes to async_set_temperature, in half degrees:
\* MaxTemp - 0.5.
TempInput == Some(2 * MaxTemp - 1)

Keys == {"target_temp_high", "target_temp_low", "temperature"}

NoKwargs == [target_temp_high |-> None, target_temp_low |-> None,
             temperature |-> None]

AllKwargs == [target_temp_high |-> TempInput, target_temp_low |-> TempInput,
              temperature |-> TempInput]

\* The kwargs of the modelled calls: every key absent or TempInput, and all
\* three keys given with one of them 0.
Kwargs == [target_temp_high : {None, TempInput},
           target_temp_low : {None, TempInput},
           temperature : {None, TempInput}]
          \cup {[AllKwargs EXCEPT ![key] = Some(0)] : key \in Keys}

\* Mode strings in every letter case, for the refreshes of SpecCase: the four
\* device modes in lower case, capitalised and upper case, and strings that
\* are no device mode.
CaseModeStrings == {"heat", "Heat", "HEAT", "cool", "Cool", "COOL",
                    "auto", "Auto", "AUTO", "off", "Off", "OFF",
                    "frost", "FROST", "heat_cool"}

CaseDevStates == [temp : OptDegrees,
                  fan : {NoStr, "LOW"},
                  mode : {None} \cup (CaseModeStrings \X BOOLEAN),
                  htsp : {None, Some(MaxTemp)},
                  clsp : {None, Some(MaxTemp)}]

DevStates == [temp : OptDegrees,
              fan : {NoStr, "LOW"},
              mode : {None} \cup (DevModeStrings \X BOOLEAN),
              htsp : {None, Some(MaxTemp)},
              clsp : {None, Some(MaxTemp)}]

\* Fan modes a caller passes to async_set_fan_mode.
FanInputs == {"LOW"}

Call(op, mode, fan, kwargs, raised, writes, signals) ==
    [op |-> op, mode |-> mode, fan |-> fan, kwargs |-> kwargs,
     raised |-> raised, writes |-> writes, signals |-> signals]

\* No refresh in flight.
Idle == [pc |-> "idle", wrote |-> {}, quiet |-> TRUE]

\* One client write: the kwargs key it serves ("" for the mode and fan
\* setters), the client method, the value passed and the client's answer.
Write(key, fn, value, ok) == [key |-> key, fn |-> fn, value |-> value, ok |-> ok]

----------------------------------------------------------------------------
\* _read_hvac_mode matching the reported string without upper().
_read_hvac_mode_case_sensitive(d) ==
    LET mode_and_active == d.mode IN
    IF mode_and_active = None
    THEN [raised |-> TRUE, value |-> NoStr]
    ELSE LET mode == mode_and_active[1] IN
         CASE mode = "HEAT" -> [raised |-> FALSE, value |-> HEAT]
           [] mode = "COOL" -> [raised |-> FALSE, value |-> COOL]
           [] mode = "AUTO" -> [raised |-> FALSE, value |-> HEAT_COOL]
           [] mode = "OFF" -> [raised |-> FALSE, value |-> OFF]
           [] OTHER -> [raised |-> TRUE, value |-> NoStr]

\* _read_hvac_mode: [raised, value]
_read_hvac_mode(d) ==
    LET mode_and_active == d.mode IN
    IF mode_and_active = None
    THEN [raised |-> TRUE, value |-> NoStr]
    ELSE LET mode == mode_and_active[1] IN
         CASE upper(mode) = "HEAT" -> [raised |-> FALSE, value |-> HEAT]
           [] upper(mode) = "COOL" -> [raised |-> FALSE, value |-> COOL]
           [] upper(mode) = "AUTO" -> [raised |-> FALSE, value |-> HEAT_COOL]
           [] upper(mode) = "OFF" -> [raised |-> FALSE, value |-> OFF]
           [] OTHER -> [raised |-> TRUE, value |-> NoStr]

\* _read_hvac_action without the is_active test.
_read_hvac_action_ignoring_active(a, d) ==
    LET mode_and_active == d.mode IN
    IF mode_and_active = None
    THEN [raised |-> TRUE, value |-> NoStr]
    ELSE LET mode == mode_and_active[1] IN
         CASE upper(mode) = "HEAT" -> [raised |-> FALSE, value |-> HEATING]
           [] upper(mode) = "COOL" -> [raised |-> FALSE, value |-> COOLING]
           [] upper(mode) = "OFF" -> [raised |-> FALSE, value |-> OFF]
           [] upper(mode) = "AUTO"
              /\ a.current_temperature # None
              /\ a.target_temperature_low # None ->
                IF a.current_temperature[1] > a.target_temperature_low[1]
                THEN [raised |-> FALSE, value |-> COOLING]
                ELSE [raised |-> FALSE, value |-> HEATING]
           [] OTHER -> [raised |-> TRUE, value |-> NoStr]

\* _read_hvac_action comparing with >= in AUTO.
_read_hvac_action_at_or_above(a, d) ==
    LET mode_and_active == d.mode IN
    IF mode_and_active = None
    THEN [raised |-> TRUE, value |-> NoStr]
    ELSE LET mode == mode_and_active[1]
             is_active == mode_and_active[2]
         IN
         IF ~is_active
         THEN [raised |-> FALSE, value |-> OFF]
         ELSE CASE upper(mode) = "HEAT" -> [raised |-> FALSE, value |-> HEATING]
                [] upper(mode) = "COOL" -> [raised |-> FALSE, value |-> COOLING]
                [] upper(mode) = "OFF" -> [raised |-> FALSE, value |-> OFF]
                [] upper(mode) = "AUTO"
                   /\ a.current_temperature # None
                   /\ a.target_temperature_low # None ->
                     IF a.current_temperature[1] >= a.target_temperature_low[1]
                     THEN [raised |-> FALSE, value |-> COOLING]
                     ELSE [raised |-> FALSE, value |-> HEATING]
                [] OTHER -> [raised |-> TRUE, value |-> NoStr]

\* _read_hvac_action on attributes a and device d: [raised, value]
_read_hvac_action(a, d) ==
    LET mode_and_active == d.mode IN
    IF mode_and_active = None
    THEN [raised |-> TRUE, value |-> NoStr]
    ELSE LET mode == mode_and_active[1]
             is_active == mode_and_active[2]
         IN
         IF ~is_active
         THEN [raised |-> FALSE, value |-> OFF]
         ELSE CASE upper(mode) = "HEAT" -> [raised |-> FALSE, value |-> HEATING]
                [] upper(mode) = "COOL" -> [raised |-> FALSE, value |-> COOLING]
                [] upper(mode) = "OFF" -> [raised |-> FALSE, value |-> OFF]
                [] upper(mode) = "AUTO"
                   /\ a.current_temperature # None
                   /\ a.target_temperature_low # None ->
                     IF a.current_temperature[1] > a.target_temperature_low[1]
                     THEN [raised |-> FALSE, value |-> COOLING]
                     ELSE [raised |-> FALSE, value |-> HEATING]
                [] OTHER -> [raised |-> TRUE, value |-> NoStr]

\* UpdateReadings without lines 100-102: the targets are not cleared.
UpdateReadings_keeping_targets(a, d) ==
    [a EXCEPT !.current_temperature = d.temp,
              !.fan_mode = IF d.fan # NoStr THEN lower(d.fan) ELSE NoStr]

\* async_update, lines 96-102: current temperature, fan mode, cleared targets.
UpdateReadings(a, d) ==
    [a EXCEPT !.current_temperature = d.temp,
              !.fan_mode = IF d.fan # NoStr THEN lower(d.fan) ELSE NoStr,
              !.target_temperature = None,
              !.target_temperature_high = None,
              !.target_temperature_low = None]

\* async_update, lines 106-125: the setpoints read for the mode.
UpdateSetpoints(a, d) ==
    CASE a.hvac_mode = HEAT -> [a EXCEPT !.target_temperature = d.htsp]
      [] a.hvac_mode = COOL -> [a EXCEPT !.target_temperature = d.clsp]
      [] a.hvac_mode = HEAT_COOL ->
            [a EXCEPT !.target_temperature_high = d.clsp,
                      !.target_temperature_low = d.htsp]
      [] OTHER -> a

\* async_update reading the mode before it assigns anything: a failed mode
\* read leaves every attribute alone.
async_update_mode_first(a, d) ==
    LET m == _read_hvac_mode(d) IN
    IF m.raised
    THEN [attr |-> a, raised |-> TRUE]
    ELSE LET a1 == UpdateReadings(a, d)
             a2 == UpdateSetpoints([a1 EXCEPT !.hvac_mode = m.value], d)
             act == _read_hvac_action(a2, d)
         IN
         IF act.raised
         THEN [attr |-> a2, raised |-> TRUE]
         ELSE [attr |-> [a2 EXCEPT !.hvac_action = act.value], raised |-> FALSE]

\* async_update: [attr, raised]
async_update(a, d) ==
    LET a1 == UpdateReadings(a, d)
        m == _read_hvac_mode(d)
    IN
    IF m.raised
    THEN [attr |-> a1, raised |-> TRUE]
    ELSE LET a2 == UpdateSetpoints([a1 EXCEPT !.hvac_mode = m.value], d)
             act == _read_hvac_action(a2, d)
         IN
         IF act.raised
         THEN [attr |-> a2, raised |-> TRUE]
         ELSE [attr |-> [a2 EXCEPT !.hvac_action = act.value], raised |-> FALSE]

----------------------------------------------------------------------------
\* The running state of a mutator call: attributes, device and call record.
Ctx(a, d, c) == [attr |-> a, dev |-> d, call |-> c]

\* A client write that the device refuses: the call raises.
Refused(c, w) ==
    [c EXCEPT !.call.raised = TRUE, !.call.writes = Append(@, w)]

\* async_set_temperature, lines 207-214.
SetTempHigh(c, kwargs, ok) ==
    IF c.call.raised \/ ~Truthy(kwargs.target_temp_high) THEN c
    ELSE LET temp == PyInt(kwargs.target_temp_high[1])
             w == Write("target_temp_high", "set_cooling_setpoint", temp, ok)
         IN
         IF ~ok THEN Refused(c, w)
         ELSE [c EXCEPT !.dev.clsp = Some(temp),
                        !.attr.target_temperature_high = Some(temp),
                        !.call.writes = Append(@, w),
                        !.call.signals = @ + 1]

\* async_set_temperature, lines 216-223.
SetTempLow(c, kwargs, ok) ==
    IF c.call.raised \/ ~Truthy(kwargs.target_temp_low) THEN c
    ELSE LET temp == PyInt(kwargs.target_temp_low[1])
             w == Write("target_temp_low", "set_heating_setpoint", temp, ok)
         IN
         IF ~ok THEN Refused(c, w)
         ELSE [c EXCEPT !.dev.htsp = Some(temp),
                        !.attr.target_temperature_low = Some(temp),
                        !.call.writes = Append(@, w),
                        !.call.signals = @ + 1]

\* TargetSetter choosing the cooling setpoint only when the mode is cool.
TargetSetter_heating_unless_cool(hvac_mode) ==
    IF hvac_mode = COOL THEN "set_cooling_setpoint" ELSE "set_heating_setpoint"

\* async_set_temperature, lines 227-231: the setter for "temperature".
TargetSetter(hvac_mode) ==
    IF hvac_mode = HEAT THEN "set_heating_setpoint" ELSE "set_cooling_setpoint"

\* SetTempTarget carried out even after an earlier write was refused.
SetTempTarget_after_refusal(c, kwargs, ok) ==
    IF ~Truthy(kwargs.temperature) THEN c
    ELSE LET temp == PyInt(kwargs.temperature[1])
             fn == TargetSetter(c.attr.hvac_mode)
             w == Write("temperature", fn, temp, ok)
         IN
         IF ~ok THEN Refused(c, w)
         ELSE [c EXCEPT !.dev.htsp = IF fn = "set_heating_setpoint"
                                     THEN Some(temp) ELSE @,
                        !.dev.clsp = IF fn = "set_cooling_setpoint"
                                     THEN Some(temp) ELSE @,
                        !.attr.target_temperature = Some(temp),
                        !.call.writes = Append(@, w),
                        !.call.signals = @ + 1]

\* async_set_temperature, lines 225-237.
SetTempTarget(c, kwargs, ok) ==
    IF c.call.raised \/ ~Truthy(kwargs.temperature) THEN c
    ELSE LET temp == PyInt(kwargs.temperature[1])
             fn == TargetSetter(c.attr.hvac_mode)
             w == Write("temperature", fn, temp, ok)
         IN
         IF ~ok THEN Refused(c, w)
         ELSE [c EXCEPT !.dev.htsp = IF fn = "set_heating_setpoint"
                                     THEN Some(temp) ELSE @,
                        !.dev.clsp = IF fn = "set_cooling_setpoint"
                                     THEN Some(temp) ELSE @,
                        !.attr.target_temperature = Some(temp),
                        !.call.writes = Append(@, w),
                        !.call.signals = @ + 1]

\* async_set_temperature processing the temperature key first.
async_set_temperature_target_first(c, kwargs, refused) ==
    SetTempLow(
        SetTempHigh(
            SetTempTarget(c, kwargs, refused # "temperature"),
            kwargs, refused # "target_temp_high"),
        kwargs, refused # "target_temp_low")

\* async_set_temperature: the three keys in the order of the code; the
\* client refuses the write for the key `refused` ("none": no refusal).
async_set_temperature(c, kwargs, refused) ==
    SetTempTarget(
        SetTempLow(
            SetTempHigh(c, kwargs, refused # "target_temp_high"),
            kwargs, refused # "target_temp_low"),
        kwargs, refused # "temperature")

\* async_set_hvac_mode assigning _attr_hvac_mode before the client answers.
async_set_hvac_mode_optimistic(c, hvac_mode, ok) ==
    LET mode == IF hvac_mode = HEAT_COOL THEN AUTO ELSE hvac_mode
        w == Write("", "set_hvac_mode", mode, ok)
        c1 == [c EXCEPT !.attr.hvac_mode = mode]
    IN
    IF ~ok THEN Refused(c1, w)
    ELSE [c1 EXCEPT !.dev.mode = IF @ = None THEN <<mode, FALSE>>
                                 ELSE <<mode, @[2]>>,
                    !.call.writes = Append(@, w),
                    !.call.signals = @ + 1]

\* async_set_hvac_mode
async_set_hvac_mode(c, hvac_mode, ok) ==
    LET mode == IF hvac_mode = HEAT_COOL THEN AUTO ELSE hvac_mode
        w == Write("", "set_hvac_mode", mode, ok)
    IN
    IF ~ok THEN Refused(c, w)
    ELSE [c EXCEPT !.dev.mode = IF @ = None THEN <<mode, FALSE>>
                                ELSE <<mode, @[2]>>,
                   !.attr.hvac_mode = mode,
                   !.call.writes = Append(@, w),
                   !.call.signals = @ + 1]

\* async_set_fan_mode
async_set_fan_mode(c, fan_mode, ok) ==
    LET w == Write("", "set_fan_mode", fan_mode, ok) IN
    IF ~ok THEN Refused(c, w)
    ELSE [c EXCEPT !.dev.fan = fan_mode,
                   !.attr.fan_mode = lower(fan_mode),
                   !.call.writes = Append(@, w),
                   !.call.signals = @ + 1]

----------------------------------------------------------------------------
Init ==
    /\ attr = [current_temperature |-> None,
               fan_mode |-> NoStr,
               hvac_mode |-> NoStr,
               target_temperature |-> None,
               target_temperature_high |-> None,
               target_temperature_low |-> None,
               hvac_action |-> NoStr]
    /\ dev \in DevStates
    /\ last = Call("init", NoStr, NoStr, NoKwargs, FALSE, <<>>, 0)
    /\ added = FALSE
    /\ run = Idle

\* The platform polls the entity (async_update).
Refresh ==
    LET r == async_update(attr, dev) IN
    /\ attr' = r.attr
    /\ last' = Call("refresh", NoStr, NoStr, NoKwargs, r.raised, <<>>, 0)
    /\ added' = (added \/ ~r.raised)
    /\ UNCHANGED <<dev, run>>

Apply(c) ==
    /\ attr' = c.attr
    /\ dev' = c.dev
    /\ last' = c.call
    /\ UNCHANGED <<added, run>>

SetMode(hvac_mode, ok) ==
    /\ added
    /\ Apply(async_set_hvac_mode(
           Ctx(attr, dev, Call("setMode", hvac_mode, NoStr, NoKwargs, FALSE, <<>>, 0)),
           hvac_mode, ok))

SetTemperature(kwargs, refused) ==
    /\ added
    /\ Apply(async_set_temperature(
           Ctx(attr, dev, Call("setTemperature", NoStr, NoStr, kwargs, FALSE, <<>>, 0)),
           kwargs, refused))

SetFanMode(fan_mode, ok) ==
    /\ added
    /\ Apply(async_set_fan_mode(
           Ctx(attr, dev, Call("setFanMode", NoStr, fan_mode, NoKwargs, FALSE, <<>>, 0)),
           fan_mode, ok))

Next ==
    \/ Refresh
    \/ \E m \in HvacModes, ok \in BOOLEAN : SetMode(m, ok)
    \/ \E k \in Kwargs :
         \E refused \in {"none"} \cup {key \in Keys : Truthy(k[key])} :
           SetTemperature(k, refused)
    \/ \E f \in FanInputs, ok \in BOOLEAN : SetFanMode(f, ok)

Spec == Init /\ [][Next]_vars

\* The refreshes and mode changes of an entity whose device reports its mode
\* in any letter case.
InitCase ==
    /\ attr = [current_temperature |-> None,
               fan_mode |-> NoStr,
               hvac_mode |-> NoStr,
               target_temperature |-> None,
               target_temperature_high |-> None,
               target_temperature_low |-> None,
               hvac_action |-> NoStr]
    /\ dev \in CaseDevStates
    /\ last = Call("init", NoStr, NoStr, NoKwargs, FALSE, <<>>, 0)
    /\ added = FALSE
    /\ run = Idle

NextCase ==
    \/ Refresh
    \/ \E m \in HvacModes, ok \in BOOLEAN : SetMode(m, ok)

SpecCase == InitCase /\ [][NextCase]_vars

\* The device changes one of the values it reports, between two calls of the
\* entity: someone uses the thermostat, the room warms up, the link drops.
DeviceChange ==
    /\ \E d \in DevStates :
          /\ Cardinality({f \in DOMAIN d : d[f] # dev[f]}) = 1
          /\ dev' = d
    /\ last' = Call("device", NoStr, NoStr, NoKwargs, FALSE, <<>>, 0)
    /\ UNCHANGED <<attr, added, run>>

\* The refreshes of an entity whose device changes between them.
NextEnv ==
    \/ Refresh
    \/ DeviceChange

SpecEnv == Init /\ [][NextEnv]_vars

-----------------------------------------------------------------------------
\* async_update as the coroutine it is: it is suspended at each await of a
\* client read, and the mutators, called from other tasks, and the device
\* itself may act before it goes on.  A client call is served whole: a read
\* continues with the value the device holds when it returns, and a mutator
\* runs from its call to its return without another task in between.

\* The device's (mode, is_active) answers in the interleaved runs.
AsyncModes == {<<"HEAT", TRUE>>, <<"cool", TRUE>>, <<"Auto", TRUE>>}

\* The single-key calls of async_set_temperature.
AsyncKwargs == {[NoKwargs EXCEPT ![key] = TempInput] : key \in Keys}

InitAsync ==
    /\ attr = [current_temperature |-> None,
               fan_mode |-> NoStr,
               hvac_mode |-> NoStr,
               target_temperature |-> None,
               target_temperature_high |-> None,
               target_temperature_low |-> None,
               hvac_action |-> NoStr]
    /\ dev \in {d \in DevStates : /\ d.temp = Some(MaxTemp)
                                  /\ d.fan # NoStr
                                  /\ d.mode \in AsyncModes
                                  /\ d.htsp # None
                                  /\ d.clsp # None}
    /\ last = Call("init", NoStr, NoStr, NoKwargs, FALSE, <<>>, 0)
    /\ added = FALSE
    /\ run = Idle

\* The platform calls async_update: it runs up to the await of line 96.
RefreshStart ==
    /\ run.pc = "idle"
    /\ run' = [pc |-> "temp", wrote |-> {}, quiet |-> TRUE]
    /\ UNCHANGED <<attr, dev, last, added>>

\* async_update goes on with attributes a up to the await named pc.
Continue(a, pc) ==
    /\ attr' = a
    /\ run' = [run EXCEPT !.pc = pc]
    /\ UNCHANGED <<dev, last, added>>

\* async_update returns or raises, with attributes a.
Finish(a, raised) ==
    /\ attr' = a
    /\ last' = Call("refresh", NoStr, NoStr, NoKwargs, raised, <<>>, 0)
    /\ added' = (added \/ ~raised)
    /\ run' = [run EXCEPT !.pc = "idle"]
    /\ UNCHANGED dev

\* Line 96.
ReadTemperature ==
    /\ run.pc = "temp"
    /\ Continue([attr EXCEPT !.current_temperature = dev.temp], "fan")

\* Lines 97-102: the fan mode read, then the three targets cleared.
ReadFanMode ==
    /\ run.pc = "fan"
    /\ Continue(UpdateReadings(attr, [dev EXCEPT !.temp = attr.current_temperature]),
                "mode")

\* Lines 103-125 up to the next await: the match on the mode just stored
\* chooses the setpoint read that follows.
ReadMode ==
    /\ run.pc = "mode"
    /\ LET m == _read_hvac_mode(dev) IN
       IF m.raised THEN Finish(attr, TRUE)
       ELSE Continue([attr EXCEPT !.hvac_mode = m.value],
                     CASE m.value = HEAT -> "htsp_target"
                       [] m.value = COOL -> "clsp_target"
                       [] m.value = HEAT_COOL -> "clsp_high"
                       [] OTHER -> "action")

\* Lines 108-110.
ReadHeatingTarget ==
    /\ run.pc = "htsp_target"
    /\ Continue([attr EXCEPT !.target_temperature = dev.htsp], "action")

\* Lines 112-114.
ReadCoolingTarget ==
    /\ run.pc = "clsp_target"
    /\ Continue([attr EXCEPT !.target_temperature = dev.clsp], "action")

\* Lines 116-118.
ReadCoolingHigh ==
    /\ run.pc = "clsp_high"
    /\ Continue([attr EXCEPT !.target_temperature_high = dev.clsp], "htsp_low")

\* Lines 119-121.
ReadHeatingLow ==
    /\ run.pc = "htsp_low"
    /\ Continue([attr EXCEPT !.target_temperature_low = dev.htsp], "action")

\* Line 129: the second read_hvac_mode, in _read_hvac_action.
ReadAction ==
    /\ run.pc = "action"
    /\ LET act == _read_hvac_action(attr, dev) IN
       IF act.raised THEN Finish(attr, TRUE)
       ELSE Finish([attr EXCEPT !.hvac_action = act.value], FALSE)

\* The device value a client setter writes.
DevField(fn) ==
    CASE fn = "set_hvac_mode" -> "mode"
      [] fn = "set_fan_mode" -> "fan"
      [] fn = "set_heating_setpoint" -> "htsp"
      [] fn = "set_cooling_setpoint" -> "clsp"

\* The attribute a mutator assigns after the accepted write w.
WrittenField(w) ==
    CASE w.fn = "set_hvac_mode" -> "hvac_mode"
      [] w.fn = "set_fan_mode" -> "fan_mode"
      [] w.key = "target_temp_high" -> "target_temperature_high"
      [] w.key = "target_temp_low" -> "target_temperature_low"
      [] w.key = "temperature" -> "target_temperature"

\* wrote after the writes ws: each accepted write makes its attribute the one
\* that holds the device value it wrote.
RECURSIVE Noted(_, _)
Noted(wrote, ws) ==
    IF ws = <<>> THEN wrote
    ELSE LET w == Head(ws) IN
         Noted(IF w.ok
               THEN {p \in wrote : p[2] # DevField(w.fn)}
                        \cup {<<WrittenField(w), DevField(w.fn)>>}
               ELSE wrote,
               Tail(ws))

\* A mutator call made from another task, while async_update is suspended or
\* between two refreshes.
AsyncApply(c) ==
    /\ attr' = c.attr
    /\ dev' = c.dev
    /\ last' = c.call
    /\ run' = IF run.pc = "idle" THEN run
              ELSE [run EXCEPT !.wrote = Noted(@, c.call.writes)]
    /\ UNCHANGED added

AsyncSetMode(hvac_mode) ==
    /\ added
    /\ AsyncApply(async_set_hvac_mode(
           Ctx(attr, dev, Call("setMode", hvac_mode, NoStr, NoKwargs, FALSE, <<>>, 0)),
           hvac_mode, TRUE))

AsyncSetTemperature(kwargs) ==
    /\ added
    /\ AsyncApply(async_set_temperature(
           Ctx(attr, dev, Call("setTemperature", NoStr, NoStr, kwargs, FALSE, <<>>, 0)),
           kwargs, "none"))

AsyncSetFanMode(fan_mode) ==
    /\ added
    /\ AsyncApply(async_set_fan_mode(
           Ctx(attr, dev, Call("setFanMode", NoStr, fan_mode, NoKwargs, FALSE, <<>>, 0)),
           fan_mode, TRUE))

\* Someone changes the mode at the thermostat, or the device stops
\* answering read_hvac_mode.
DeviceModeChange ==
    /\ \E m \in AsyncModes \cup {None} :
          /\ m # dev.mode
          /\ dev' = [dev EXCEPT !.mode = m]
    /\ run' = [run EXCEPT !.quiet = FALSE]
    /\ UNCHANGED <<attr, last, added>>

NextAsync ==
    \/ RefreshStart
    \/ ReadTemperature
    \/ ReadFanMode
    \/ ReadMode
    \/ ReadHeatingTarget
    \/ ReadCoolingTarget
    \/ ReadCoolingHigh
    \/ ReadHeatingLow
    \/ ReadAction
    \/ \E m \in HvacModes : AsyncSetMode(m)
    \/ \E k \in AsyncKwargs : AsyncSetTemperature(k)
    \/ \E f \in FanInputs : AsyncSetFanMode(f)
    \/ DeviceModeChange

SpecAsync == InitAsync /\ [][NextAsync]_vars

----------------------------------------------------------------------------
\* Vocabulary of the properties.

Mutators == {"setMode", "setTemperature", "setFanMode"}

\* The attribute that serves a kwargs key of async_set_temperature.
AttrOf(key) ==
    CASE key = "target_temp_high" -> "target_temperature_high"
      [] key = "target_temp_low" -> "target_temperature_low"
      [] key = "temperature" -> "target_temperature"

\* The device mode strings that spell each mode, in any letter case.
HeatSpellings == {"heat", "Heat", "HEAT"}
CoolSpellings == {"cool", "Cool", "COOL"}
AutoSpellings == {"auto", "Auto", "AUTO"}
OffSpellings == {"off", "Off", "OFF"}

\* The last write of a call record.
LastWrite(c) == c.writes[Len(c.writes)]

\* The value the accepted writes of ws leave in the setpoint written by fn,
\* starting from the value old.
Written(ws, fn, old) ==
    LET hits == {i \in 1..Len(ws) : ws[i].fn = fn /\ ws[i].ok} IN
    IF hits = {} THEN old
    ELSE Some(ws[CHOOSE i \in hits : \A j \in hits : j <= i].value)

\* C1: a setMode(m) call whose device write succeeds leaves hvac_mode = m, and
\* setMode(heat_cool) sends the string "auto" to the device.
C1_SetModeStoresRequestedMode ==
    (last.op = "setMode" /\ ~last.raised) =>
        /\ attr.hvac_mode = last.mode
        /\ last.mode = HEAT_COOL => last.writes[1].value = "auto"

\* C2: once the entity has been refreshed, hvac_action never contradicts
\* hvac_mode: cool excludes heating, heat excludes cooling, off implies off.
C2_ActionNeverContradictsMode ==
    added =>
        /\ attr.hvac_mode = COOL => attr.hvac_action # HEATING
        /\ attr.hvac_mode = HEAT => attr.hvac_action # COOLING
        /\ attr.hvac_mode = OFF => attr.hvac_action = OFF

\* C3: after the first successful refresh exactly one setpoint group is
\* populated and the other is absent: the single target in heat and cool, the
\* high/low pair in heat_cool.  Stated for the states in which the device
\* holds both setpoints, so that no absent value comes from a device read.
C3_ExactlyOneSetpointGroup ==
    (added /\ dev.htsp # None /\ dev.clsp # None) =>
        /\ attr.hvac_mode \in {HEAT, COOL} =>
              /\ attr.target_temperature # None
              /\ attr.target_temperature_high = None
              /\ attr.target_temperature_low = None
        /\ attr.hvac_mode = HEAT_COOL =>
              /\ attr.target_temperature = None
              /\ attr.target_temperature_high # None
              /\ attr.target_temperature_low # None

\* C4: a mutator raises exactly when the client refuses a write; the refused
\* write is the call's last one, the attribute it targets keeps its value and
\* every state-write signal of the call belongs to an accepted write.
C4_Step ==
    last'.op \in Mutators =>
        LET ws == last'.writes IN
        /\ last'.raised <=> (\E i \in 1..Len(ws) : ~ws[i].ok)
        /\ last'.raised =>
              /\ ~LastWrite(last').ok
              /\ last'.signals = Len(ws) - 1
              /\ last'.op = "setMode" => attr'.hvac_mode = attr.hvac_mode
              /\ last'.op = "setFanMode" => attr'.fan_mode = attr.fan_mode
              /\ last'.op = "setTemperature" =>
                    attr'[AttrOf(LastWrite(last').key)]
                        = attr[AttrOf(LastWrite(last').key)]

C4_RefusedWriteKeepsLocalState == [][C4_Step]_vars

C4_Witness ==
    /\ last.op = "setMode"
    /\ last.raised
    /\ last.mode = COOL
    /\ attr.hvac_mode = HEAT
    /\ last.signals = 0

\* C5: in a setTemperature call that raises, the refused write is the last
\* write issued; the keys given but not reached get no write and no attribute
\* change, and the keys before it keep their device write and their
\* attribute update.
C5_Step ==
    (last'.op = "setTemperature" /\ last'.raised) =>
        LET ws == last'.writes
            n == Len(ws)
            reached == {ws[i].key : i \in 1..n}
        IN
        /\ n >= 1
        /\ ~ws[n].ok
        /\ \A i \in 1..(n - 1) : ws[i].ok
        /\ Cardinality(reached) = n
        /\ \A key \in Keys \ reached : attr'[AttrOf(key)] = attr[AttrOf(key)]
        /\ \A i \in 1..(n - 1) : attr'[AttrOf(ws[i].key)] = Some(ws[i].value)
        /\ dev'.htsp = Written(ws, "set_heating_setpoint", dev.htsp)
        /\ dev'.clsp = Written(ws, "set_cooling_setpoint", dev.clsp)

C5_FirstRefusalEndsCall == [][C5_Step]_vars

C5_Witness ==
    /\ last.op = "setTemperature"
    /\ last.raised
    /\ Len(last.writes) = 3
    /\ attr.target_temperature_high = Some(last.writes[1].value)
    /\ attr.target_temperature_low = Some(last.writes[2].value)
    /\ attr.target_temperature # Some(last.writes[3].value)
    /\ dev.clsp = Some(last.writes[1].value)
    /\ dev.htsp = Some(last.writes[2].value)

\* The position of a kwargs key in the order the code processes the keys.
Rank(key) ==
    CASE key = "target_temp_high" -> 1
      [] key = "target_temp_low" -> 2
      [] key = "temperature" -> 3

\* C6, as the claim states it: the keys are processed in the order target,
\* high, low, so when the write for target_temp_high is refused a given
\* temperature key has been written and applied and a given target_temp_low
\* key has not been written.
C6_OrderTargetHighLow ==
    (/\ last.op = "setTemperature"
     /\ last.raised
     /\ LastWrite(last).key = "target_temp_high") =>
        LET ws == last.writes IN
        /\ Truthy(last.kwargs.temperature) =>
              \E i \in 1..Len(ws) :
                  /\ ws[i].key = "temperature"
                  /\ ws[i].ok
                  /\ attr.target_temperature = Some(ws[i].value)
        /\ Truthy(last.kwargs.target_temp_low) =>
              \A i \in 1..Len(ws) : ws[i].key # "target_temp_low"

\* C6, amended: the non-zero keys are processed in the order target_temp_high,
\* target_temp_low, temperature.  When the write for target_temp_low is
\* refused a non-zero target_temp_high has been written and applied and the
\* temperature key has been neither written nor applied; when the write for
\* target_temp_high is refused nothing has been written or applied.
C6_Step ==
    last'.op = "setTemperature" =>
        LET ws == last'.writes
            n == Len(ws)
            k == last'.kwargs
        IN
        /\ \A i, j \in 1..n : i < j => Rank(ws[i].key) < Rank(ws[j].key)
        /\ \A i \in 1..n : Truthy(k[ws[i].key])
        /\ ~last'.raised => \A key \in Keys :
              Truthy(k[key]) => \E i \in 1..n : ws[i].key = key
        /\ (last'.raised /\ LastWrite(last').key = "target_temp_low") =>
              /\ Truthy(k.target_temp_high) =>
                    /\ n = 2
                    /\ ws[1].key = "target_temp_high"
                    /\ ws[1].ok
                    /\ attr'.target_temperature_high = Some(ws[1].value)
                    /\ dev'.clsp = Some(ws[1].value)
              /\ attr'.target_temperature = attr.target_temperature
        /\ (last'.raised /\ LastWrite(last').key = "target_temp_high") =>
              /\ n = 1
              /\ attr' = attr
              /\ dev' = dev

C6_OrderHighLowTarget == [][C6_Step]_vars

C6_Witness ==
    /\ last.op = "setTemperature"
    /\ last.raised
    /\ \A key \in Keys : Truthy(last.kwargs[key])
    /\ Len(last.writes) = 2
    /\ last.writes[2].key = "target_temp_low"
    /\ attr.target_temperature_high = Some(last.writes[1].value)
    /\ attr.target_temperature # Some(PyInt(last.kwargs.temperature[1]))

\* C7: after a refresh that does not raise, with the device reporting
\* (mode, active): inactive gives action off; active gives heating for heat,
\* cooling for cool and off for off.
C7_ActionFromModeAndActive ==
    (last.op = "refresh" /\ ~last.raised) =>
        LET mode == dev.mode[1]
            active == dev.mode[2]
        IN
        /\ ~active => attr.hvac_action = OFF
        /\ (active /\ mode \in HeatSpellings) => attr.hvac_action = HEATING
        /\ (active /\ mode \in CoolSpellings) => attr.hvac_action = COOLING
        /\ (active /\ mode \in OffSpellings) => attr.hvac_action = OFF

C7_Witness ==
    /\ last.op = "refresh"
    /\ ~last.raised
    /\ dev.mode = <<"cool", TRUE>>
    /\ attr.hvac_action = COOLING
    /\ attr.hvac_mode = COOL

\* C8: a refresh with the device reporting auto and active: when the current
\* temperature and the heating setpoint are both read, the action is cooling
\* if the temperature is above the setpoint and heating otherwise; when
\* either is missing the refresh raises and hvac_action keeps its value.
C8_Step ==
    (/\ last'.op = "refresh"
     /\ dev.mode # None
     /\ dev.mode[1] \in AutoSpellings
     /\ dev.mode[2]) =>
        /\ attr'.current_temperature = dev.temp
        /\ attr'.target_temperature_low = dev.htsp
        /\ IF dev.temp # None /\ dev.htsp # None
           THEN /\ ~last'.raised
                /\ attr'.hvac_action =
                      IF dev.temp[1] > dev.htsp[1] THEN COOLING ELSE HEATING
           ELSE /\ last'.raised
                /\ attr'.hvac_action = attr.hvac_action

C8_AutoAction == [][C8_Step]_vars

C8_Witness ==
    /\ last.op = "refresh"
    /\ last.raised
    /\ dev.mode = <<"auto", TRUE>>
    /\ attr.hvac_mode = HEAT_COOL
    /\ attr.target_temperature_low = None
    /\ attr.current_temperature # None
    /\ attr.hvac_action = COOLING

\* C9: a refresh that does not raise leaves every attribute a function of
\* the device reads: the setpoints follow the mode-to-setpoint mapping, the
\* setpoint attributes the mode does not name are absent, hvac_mode is never
\* the written "auto", and nothing of the state before the refresh is left.
C9_RefreshRebuildsState ==
    (last.op = "refresh" /\ ~last.raised) =>
        LET mode == dev.mode[1]
            active == dev.mode[2]
            single(m, sp) ==
                /\ attr.hvac_mode = m
                /\ attr.target_temperature = sp
                /\ attr.target_temperature_high = None
                /\ attr.target_temperature_low = None
        IN
        /\ attr.current_temperature = dev.temp
        /\ attr.fan_mode = (CASE dev.fan = NoStr -> NoStr
                              [] dev.fan = "auto" -> "auto"
                              [] dev.fan = "LOW" -> "low")
        /\ mode \in HeatSpellings \cup CoolSpellings \cup AutoSpellings
                        \cup OffSpellings
        /\ mode \in HeatSpellings => single(HEAT, dev.htsp)
        /\ mode \in CoolSpellings => single(COOL, dev.clsp)
        /\ mode \in OffSpellings => single(OFF, None)
        /\ mode \in AutoSpellings =>
              /\ attr.hvac_mode = HEAT_COOL
              /\ attr.target_temperature = None
              /\ attr.target_temperature_high = dev.clsp
              /\ attr.target_temperature_low = dev.htsp
        /\ attr.hvac_action =
              (CASE ~active -> OFF
                 [] active /\ mode \in HeatSpellings -> HEATING
                 [] active /\ mode \in CoolSpellings -> COOLING
                 [] active /\ mode \in OffSpellings -> OFF
                 [] active /\ mode \in AutoSpellings ->
                      IF dev.temp[1] > dev.htsp[1] THEN COOLING ELSE HEATING)

C9_Witness ==
    /\ last.op = "refresh"
    /\ ~last.raised
    /\ dev.mode[1] = "auto"
    /\ attr.hvac_mode = HEAT_COOL
    /\ attr.target_temperature = None
    /\ attr.target_temperature_high = Some(PyInt(TempInput[1]))
    /\ attr.target_temperature_low = Some(MaxTemp)

\* C10: the write for the temperature key goes to the heating setpoint when
\* hvac_mode is heat at the time of the call and to the cooling setpoint for
\* every other hvac_mode, never to the other setpoint; when it is accepted
\* target_temperature is the written value.
C10_Step ==
    last'.op = "setTemperature" =>
        LET ws == last'.writes
            n == Len(ws)
        IN
        \A i \in 1..n : ws[i].key = "temperature" =>
            /\ i = n
            /\ ws[i].value = PyInt(last'.kwargs.temperature[1])
            /\ IF attr.hvac_mode = HEAT
               THEN /\ ws[i].fn = "set_heating_setpoint"
                    /\ dev'.htsp = IF ws[i].ok THEN Some(ws[i].value)
                                   ELSE Written(SubSeq(ws, 1, n - 1),
                                                "set_heating_setpoint", dev.htsp)
                    /\ dev'.clsp = Written(SubSeq(ws, 1, n - 1),
                                           "set_cooling_setpoint", dev.clsp)
               ELSE /\ ws[i].fn = "set_cooling_setpoint"
                    /\ dev'.clsp = IF ws[i].ok THEN Some(ws[i].value)
                                   ELSE Written(SubSeq(ws, 1, n - 1),
                                                "set_cooling_setpoint", dev.clsp)
                    /\ dev'.htsp = Written(SubSeq(ws, 1, n - 1),
                                           "set_heating_setpoint", dev.htsp)
            /\ ws[i].ok => attr'.target_temperature = Some(ws[i].value)

C10_TargetRoutedByMode == [][C10_Step]_vars

C10_Witness ==
    /\ last.op = "setTemperature"
    /\ ~last.raised
    /\ Len(last.writes) = 1
    /\ last.writes[1].key = "temperature"
    /\ last.writes[1].fn = "set_heating_setpoint"
    /\ attr.hvac_mode = HEAT
    /\ attr.target_temperature = Some(last.writes[1].value)
    /\ dev.htsp = Some(last.writes[1].value)
    /\ dev.clsp = Some(MaxTemp)

\* C11: a refresh raises exactly when the device gives no (mode, active)
\* pair, or a mode string that is none of heat, cool, auto, off in any letter
\* case, or reports auto and active while the current temperature or the
\* heating setpoint is missing; every recognised string, in any letter case,
\* is mapped to hvac_mode heat, cool, heat_cool (auto) or off.
C11_RefreshRaisesExactlyWhen ==
    last.op = "refresh" =>
        LET recognised == HeatSpellings \cup CoolSpellings \cup AutoSpellings
                              \cup OffSpellings
            unreadable == dev.mode = None \/ dev.mode[1] \notin recognised
            unresolvable ==
                /\ dev.mode[1] \in AutoSpellings
                /\ dev.mode[2]
                /\ (dev.temp = None \/ dev.htsp = None)
        IN
        /\ last.raised <=> (unreadable \/ unresolvable)
        /\ ~unreadable =>
              /\ dev.mode[1] \in HeatSpellings => attr.hvac_mode = HEAT
              /\ dev.mode[1] \in CoolSpellings => attr.hvac_mode = COOL
              /\ dev.mode[1] \in AutoSpellings => attr.hvac_mode = HEAT_COOL
              /\ dev.mode[1] \in OffSpellings => attr.hvac_mode = OFF

C11_Witness ==
    /\ last.op = "refresh"
    /\ ~last.raised
    /\ dev.mode[1] = "Cool"
    /\ attr.hvac_mode = COOL

\* C12: in a setTemperature call that does not raise, every key that is given,
\* whatever its numeric value, gets exactly one device write, every key that
\* is not given gets none, each accepted write is followed by one state-write
\* signal, and each given key's attribute holds the value written for it.
C12_EveryPresentFieldWritten ==
    (last.op = "setTemperature" /\ ~last.raised) =>
        /\ \A key \in Keys :
              LET hits == {i \in 1..Len(last.writes) : last.writes[i].key = key}
              IN
              /\ Cardinality(hits) = IF last.kwargs[key] # None THEN 1 ELSE 0
              /\ \A i \in hits : attr[AttrOf(key)] = Some(last.writes[i].value)
        /\ last.signals = Len(last.writes)

\* The attributes a mutator writes optimistically.
OptimisticFields == {"hvac_mode", "fan_mode", "target_temperature",
                     "target_temperature_high", "target_temperature_low"}

\* C16: a mutator call that succeeds right after a successful refresh leaves
\* hvac_mode, fan_mode and the three target temperatures equal to what a
\* refresh of the device, as the call left it, would produce when it succeeds.
C16_Step ==
    (/\ last.op = "refresh"
     /\ ~last.raised
     /\ last'.op \in Mutators
     /\ ~last'.raised) =>
        LET r == async_update(attr', dev') IN
        ~r.raised => \A f \in OptimisticFields : attr'[f] = r.attr[f]

C16_OptimisticAgreesWithRefresh == [][C16_Step]_vars

\* C17: a refresh that raises at the mode read (no pair, or a string that is
\* no mode) leaves hvac_mode and hvac_action as they were before it, and has
\* stored the device's current temperature and fan mode and cleared the three
\* targets; a refresh that raises at the action step has in addition stored
\* the mode read and that mode's setpoints, and leaves hvac_action as it was.
C17_Step ==
    (last'.op = "refresh" /\ last'.raised) =>
        LET recognised == HeatSpellings \cup CoolSpellings \cup AutoSpellings
                              \cup OffSpellings
            atModeRead == dev.mode = None \/ dev.mode[1] \notin recognised
        IN
        /\ attr'.hvac_action = attr.hvac_action
        /\ attr'.current_temperature = dev.temp
        /\ attr'.fan_mode = (IF dev.fan = NoStr THEN NoStr ELSE lower(dev.fan))
        /\ atModeRead =>
              /\ attr'.hvac_mode = attr.hvac_mode
              /\ attr'.target_temperature = None
              /\ attr'.target_temperature_high = None
              /\ attr'.target_temperature_low = None
        /\ ~atModeRead =>
              /\ dev.mode[1] \in AutoSpellings
              /\ attr'.hvac_mode = HEAT_COOL
              /\ attr'.target_temperature = None
              /\ attr'.target_temperature_high = dev.clsp
              /\ attr'.target_temperature_low = dev.htsp

C17_FailedRefreshFrame == [][C17_Step]_vars

\* A refresh has raised at the action step after an earlier refresh read
\* mode cool with the unit running: the mode and the setpoint pair are new,
\* the action is the old one.
C17_Witness ==
    /\ last.op = "refresh"
    /\ last.raised
    /\ attr.hvac_mode = HEAT_COOL
    /\ attr.hvac_action = COOLING
    /\ attr.target_temperature_high = Some(MaxTemp)
    /\ attr.current_temperature = None

\* C14: right after a refresh that returns, during which no mutator wrote,
\* hvac_action is consistent with hvac_mode, whatever the device did while
\* the refresh was in flight: heat excludes cooling, cool excludes heating,
\* off implies off.
C14_ActionConsistentWithMode ==
    (/\ run.pc = "idle"
     /\ last.op = "refresh"
     /\ ~last.raised
     /\ run.wrote = {}) =>
        /\ attr.hvac_mode = HEAT => attr.hvac_action # COOLING
        /\ attr.hvac_mode = COOL => attr.hvac_action # HEATING
        /\ attr.hvac_mode = OFF => attr.hvac_action = OFF

\* The attribute p[1] holds what the device holds in p[2]; a target that the
\* refresh left absent, because the mode it read does not show it, holds no
\* other value.
DeviceHolds(p) ==
    CASE p[2] = "mode" ->
            \/ upper(attr.hvac_mode) = upper(dev.mode[1])
            \/ attr.hvac_mode = _read_hvac_mode(dev).value
      [] p[2] = "fan" -> attr.fan_mode = lower(dev.fan)
      [] OTHER -> attr[p[1]] = None \/ attr[p[1]] = dev[p[2]]

\* C15: when a refresh has returned and the device was changed only by the
\* entity's own writes since it started, every attribute that a mutator wrote
\* at one of its awaits has not been overwritten with another value: it still
\* equals the value the device holds for it.
C15_MutatorSurvivesRefresh ==
    (/\ run.pc = "idle"
     /\ last.op = "refresh"
     /\ ~last.raised
     /\ run.quiet) =>
        \A p \in run.wrote : DeviceHolds(p)

====
